---- MODULE Spec2Model ----
(***************************************************************************)
(* GC/Issy scheduler: the greedy generator generateSchedule, in its two    *)
(* versions.                                                               *)
(*   version "A": src/src/App.tsx:55        (percentage preferences only)  *)
(*   version "B": src/unnamed/part_001:717  (fixed Monday/Friday pins,     *)
(*                Tuesday-Thursday Issy rule, active flag)                 *)
(* A date of the selected month is its day-of-month number; yyyyMMdd is    *)
(* injective on the days of one month, so the number stands for the ISO    *)
(* key.  Date 0 stands for a date of another month.                        *)
(* Priorities are kept as integers, 100 times the value the code computes  *)
(* (deficit * 2 + share / 100): for integer shares the order and the sign  *)
(* of the scaled value are those of the floating-point value.              *)
(***************************************************************************)
EXTENDS Integers, Sequences, FiniteSets, TLC

\* ---------------------------------------------------------------- bounds
\* Largest roster handed to generateSchedule.
MaxRoster == 13
\* Number of generation runs on the same inputs (SpecRegen only).
MaxRuns == 2

\* ---------------------------------------------------------------- constants
GCCapacity == 5
IssyCapacity == 12
GCFloor == 3
IssyMinTueThu == 3
IssyMaxTueThu == 4

Tags == {"GC", "ISSY", "REMOTE", "OOO"}

Person(id, gc, issy, remote, active) ==
  [id |-> id, gcShare |-> gc, issyShare |-> issy, remoteShare |-> remote,
   active |-> active]

\* PEOPLE of version A; no entry has an active field.
PEOPLE ==
  << Person("bertrand", 70, 10, 20, "undefined"),
     Person("florence", 60, 10, 30, "undefined"),
     Person("nicolas", 55, 15, 30, "undefined"),
     Person("amelie", 5, 5, 90, "undefined"),
     Person("karine", 90, 5, 5, "undefined"),
     Person("lea", 55, 15, 30, "undefined"),
     Person("dounia", 55, 15, 30, "undefined"),
     Person("laurent", 45, 45, 10, "undefined"),
     Person("eva", 20, 20, 60, "undefined"),
     Person("herve", 35, 35, 30, "undefined"),
     Person("mathilde", 35, 35, 30, "undefined"),
     Person("rubie", 55, 15, 30, "undefined") >>

\* PEOPLE of version B: amelie is marked inactive, karine active, and the
\* other entries carry no active field.
PEOPLE_B ==
  << Person("bertrand", 70, 10, 20, "undefined"),
     Person("florence", 60, 10, 30, "undefined"),
     Person("nicolas", 55, 15, 30, "undefined"),
     Person("amelie", 5, 5, 90, "false"),
     Person("karine", 90, 5, 5, "true"),
     Person("lea", 55, 15, 30, "undefined"),
     Person("dounia", 55, 15, 30, "undefined"),
     Person("laurent", 45, 45, 10, "undefined"),
     Person("eva", 20, 20, 60, "undefined"),
     Person("herve", 35, 35, 30, "undefined"),
     Person("mathilde", 35, 35, 30, "undefined"),
     Person("rubie", 55, 15, 30, "undefined"),
     Person("lorraine", 20, 20, 60, "undefined") >>

\* People appended to the lists above when a longer roster is handed in.
ExtraPeopleA ==
  << Person("zoe", 0, 40, 40, "undefined"),
     Person("yann", 100, 0, 0, "undefined"),
     Person("xavier", 35, 35, 30, "undefined") >>

ExtraPeopleB ==
  << Person("yann", 100, 0, 0, "undefined"),
     Person("xavier", 35, 35, 30, "undefined") >>

\* ---------------------------------------------------------------- helpers
Min(a, b) == IF a < b THEN a ELSE b
Max(a, b) == IF a > b THEN a ELSE b

Range(s) == {s[i] : i \in 1..Len(s)}
Includes(s, x) == \E i \in 1..Len(s) : s[i] = x
Ids(ps) == {ps[i].id : i \in 1..Len(ps)}

\* Mutant: equal keys come out in reverse order.
SortDescTiesReversed(keys) ==
  LET rank(i) == Cardinality({j \in 1..Len(keys) :
                      \/ keys[j] > keys[i]
                      \/ keys[j] = keys[i] /\ j > i}) + 1
  IN [k \in 1..Len(keys) |-> CHOOSE i \in 1..Len(keys) : rank(i) = k]

\* Array.prototype.sort with the comparator "b.priority - a.priority", on
\* the sequence of the elements' priorities: the positions of the elements
\* in their sorted order, highest priority first, elements of equal
\* priority in their original order (the sort is stable).
SortDesc(keys) ==
  LET rank(i) == Cardinality({j \in 1..Len(keys) :
                      \/ keys[j] > keys[i]
                      \/ keys[j] = keys[i] /\ j < i}) + 1
  IN [k \in 1..Len(keys) |-> CHOOSE i \in 1..Len(keys) : rank(i) = k]

\* ---------------------------------------------------------------- calendar
\* monthStart is [dow1, len]: the weekday of the 1st (0 = Sunday) and the
\* number of days of the month.
Dow(m, d) == (m.dow1 + d - 1) % 7
isWeekend(m, d) == Dow(m, d) \in {0, 6}
isBusinessDay(m, d) == ~isWeekend(m, d)
eachDayOfInterval(m) == [i \in 1..m.len |-> i]
MonthDaysOf(m) == SelectSeq(eachDayOfInterval(m), LAMBDA d : isBusinessDay(m, d))

\* ---------------------------------------------------------------- state
VARIABLES
  version,          \* which generateSchedule is running: "A" or "B"
  people,           \* argument: the roster, in order
  peoplePrefs,      \* argument (version B): id -> edited shares
  monthStart,       \* argument: the month
  bubbleLuxDates,   \* argument: the all-hands dates
  oooData,          \* argument: id -> absence dates
  plan,             \* local: date -> id -> tag
  targetDays,       \* local: id -> [gc, issy, remote]
  actualDays,       \* local: id -> [gc, issy, remote]
  pc,               \* position in generateSchedule
  dayIndex,         \* index in monthDays of the day being processed
  gcCandidates,     \* local of step 1: sorted [person, priority] records
  candIndex,        \* position of the for loop of step 1
  remainingPeople,  \* local of step 2
  remIndex,         \* position of the for loop of step 2
  run,              \* number of the current call
  firstResult,      \* what the first call returned
  state,            \* App: the state of useScheduleData
  csvText,          \* App: the text of the file last handed to importCSV
  download,         \* App: the text last written by exportCSV
  lastOp,           \* App: the handler that ran last
  ops               \* App: number of handlers run so far

vars == << version, people, peoplePrefs, monthStart, bubbleLuxDates, oooData,
           plan, targetDays, actualDays, pc, dayIndex, gcCandidates,
           candIndex, remainingPeople, remIndex, run, firstResult,
           state, csvText, download, lastOp, ops >>

args == << version, people, peoplePrefs, monthStart, bubbleLuxDates, oooData >>
loops == << gcCandidates, candIndex, remainingPeople, remIndex >>
app == << state, csvText, download, lastOp, ops >>
calls == << run, firstResult, app >>

Empty == [x \in {} |-> 0]

monthDays == MonthDaysOf(monthStart)
iso == monthDays[dayIndex]

\* oooData[id]?.includes(d)
OooIncludes(ooo, id, d) == id \in DOMAIN ooo /\ Includes(ooo[id], d)

\* part_001:719-722: people.filter(p => p.active), with edited shares. Only
\* a truthy flag passes the filter; a missing flag is undefined.
WithPrefs(p, prefs) ==
  IF p.id \in DOMAIN prefs
    THEN [p EXCEPT !.gcShare = prefs[p.id].gcShare,
                   !.issyShare = prefs[p.id].issyShare,
                   !.remoteShare = prefs[p.id].remoteShare]
    ELSE p

activePeople(ps, prefs) ==
  LET act == SelectSeq(ps, LAMBDA p : p.active = "true")
  IN [i \in 1..Len(act) |-> WithPrefs(act[i], prefs)]

\* The people generateSchedule schedules: the roster (A), activePeople (B).
Scheduled == IF version = "A" THEN people ELSE activePeople(people, peoplePrefs)
SchedIds == Ids(Scheduled)
PersonOf(id) == CHOOSE p \in Range(Scheduled) : p.id = id

\* dayUsage(iso)[site]: Object.values(row) counts every cell of the row.
dayUsage(pl, d, site) == Cardinality({id \in DOMAIN pl[d] : pl[d][id] = site})

\* ---------------------------------------------------------------- phases
\* Mutant: the rows are built for all but the last business day.
InitPlanSkipsLastDay(sched, m) ==
  LET bd == MonthDaysOf(m)
  IN [d \in Range(SubSeq(bd, 1, Len(bd) - 1)) |-> [id \in Ids(sched) |-> "REMOTE"]]

\* plan[key] = Object.fromEntries(people.map(p => [p.id, "REMOTE"]))
InitPlanOf(sched, m) ==
  [d \in Range(MonthDaysOf(m)) |-> [id \in Ids(sched) |-> "REMOTE"]]

\* Version B, "Apply special rules first": Karine at GC except on BubbleLux
\* days, then the Monday/Friday pins.
PinnedIds == {"karine", "bertrand", "dounia"}

\* Mutant: the Monday rule is not applied on Fridays.
SpecialRulesMondayOnly(pl, sched, m, bubble, ooo) ==
  [d \in DOMAIN pl |->
     LET row1 == IF /\ ~Includes(bubble, d)
                    /\ "karine" \in Ids(sched)
                    /\ ~OooIncludes(ooo, "karine", d)
                   THEN [pl[d] EXCEPT !["karine"] = "GC"]
                   ELSE pl[d]
     IN IF Dow(m, d) = 1
          THEN [id \in DOMAIN row1 |->
                  IF /\ id \in Ids(sched)
                     /\ ~OooIncludes(ooo, id, d)
                     /\ ~Includes(bubble, d)
                    THEN (IF id \in PinnedIds THEN "GC" ELSE "REMOTE")
                    ELSE row1[id]]
          ELSE row1]

SpecialRulesOf(pl, sched, m, bubble, ooo) ==
  [d \in DOMAIN pl |->
     LET row1 == IF /\ ~Includes(bubble, d)
                    /\ "karine" \in Ids(sched)
                    /\ ~OooIncludes(ooo, "karine", d)
                   THEN [pl[d] EXCEPT !["karine"] = "GC"]
                   ELSE pl[d]
     IN IF Dow(m, d) \in {1, 5}
          THEN [id \in DOMAIN row1 |->
                  IF /\ id \in Ids(sched)
                     /\ ~OooIncludes(ooo, id, d)
                     /\ ~Includes(bubble, d)
                    THEN (IF id \in PinnedIds THEN "GC" ELSE "REMOTE")
                    ELSE row1[id]]
          ELSE row1]

\* "Apply OOO first": every (id, date) of oooData whose date has a row gets
\* the cell OOO, whether or not id is a scheduled person.
ApplyOOOOf(pl, ooo) ==
  [d \in DOMAIN pl |->
     LET absent == {id \in DOMAIN ooo : Includes(ooo[id], d)}
     IN [id \in DOMAIN pl[d] \cup absent |->
           IF id \in absent THEN "OOO" ELSE pl[d][id]]]

\* Mutant: the all-hands rule does not spare the OOO cells.
ApplyBubbleLuxOverOOO(pl, sched, bubble) ==
  [d \in DOMAIN pl |->
     IF Includes(bubble, d)
       THEN [id \in DOMAIN pl[d] |->
               IF id \in Ids(sched) THEN "ISSY" ELSE pl[d][id]]
       ELSE pl[d]]

\* "Apply BubbleLux (all at Issy)": every scheduled person not OOO.
ApplyBubbleLuxOf(pl, sched, bubble) ==
  [d \in DOMAIN pl |->
     IF Includes(bubble, d)
       THEN [id \in DOMAIN pl[d] |->
               IF id \in Ids(sched) /\ pl[d][id] # "OOO" THEN "ISSY"
               ELSE pl[d][id]]
       ELSE pl[d]]

\* Mutant: the share of the days is rounded up.
RoundShareUp(share, availableDays) == (share * availableDays + 99) \div 100

\* Mutant: the share of the days is cut off, not rounded.
RoundShareDown(share, availableDays) == (share * availableDays) \div 100

\* Math.round((share / 100) * availableDays): halves go up. The floating
\* point product rounds as the exact one for shares 0..100 and up to 24 days.
RoundShare(share, availableDays) == (share * availableDays + 50) \div 100

AvailableDaysOf(id, m, ooo) ==
  Len(SelectSeq(MonthDaysOf(m), LAMBDA d : ~OooIncludes(ooo, id, d)))

TargetDaysOf(sched, m, ooo) ==
  [id \in Ids(sched) |->
     LET p == CHOOSE q \in Range(sched) : q.id = id
         availableDays == AvailableDaysOf(id, m, ooo)
         gcTarget == RoundShare(p.gcShare, availableDays)
         issyTarget == RoundShare(p.issyShare, availableDays)
     IN [gc |-> gcTarget, issy |-> issyTarget,
         remote |-> availableDays - gcTarget - issyTarget]]

\* "Track actual assignments": the Issy counter starts at the number of
\* BubbleLux dates the person is not absent on; version B then adds the
\* cells already set in the plan.
bubbleLuxCount(id, bubble, ooo) ==
  Len(SelectSeq(bubble, LAMBDA d : ~OooIncludes(ooo, id, d)))

PreAssigned(pl, id, site) == Cardinality({d \in DOMAIN pl : pl[d][id] = site})

ActualDaysOf(v, pl, sched, bubble, ooo) ==
  [id \in Ids(sched) |->
     LET seed == bubbleLuxCount(id, bubble, ooo)
     IN IF v = "A"
          THEN [gc |-> 0, issy |-> seed, remote |-> 0]
          ELSE [gc |-> PreAssigned(pl, id, "GC"),
                issy |-> seed + PreAssigned(pl, id, "ISSY"),
                remote |-> PreAssigned(pl, id, "REMOTE")]]

\* ---------------------------------------------------------------- priorities
\* deficit * 2 + share / 100, times 100.
calculateGCPriority(person, actual, target) ==
  (target.gc - actual.gc) * 200 + person.gcShare

calculateIssyPriority(person, actual, target) ==
  (target.issy - actual.issy) * 200 + person.issyShare

calculateRemotePriority(person, actual, target) ==
  (target.remote - actual.remote) * 200 + person.remoteShare

\* ---------------------------------------------------------------- day steps
\* people.filter(p => plan[iso][p.id] === "REMOTE")
OpenPeople(pl, d, sched) == SelectSeq(sched, LAMBDA p : pl[d][p.id] = "REMOTE")

Assign(pl, d, id, site) == [pl EXCEPT ![d][id] = site]
Credit(actual, id, field, n) == [actual EXCEPT ![id][field] = @ + n]

\* Mutant: the candidates are left in roster order, the sort is missing.
GcCandidatesUnsorted(pl, d, sched, actual, target) ==
  LET open == OpenPeople(pl, d, sched)
  IN [i \in 1..Len(open) |->
        [person |-> open[i],
         priority |-> calculateGCPriority(open[i], actual[open[i].id],
                                          target[open[i].id])]]

\* Step 1: the open people with their GC priority, sorted by priority,
\* highest first.
GcCandidatesOf(pl, d, sched, actual, target) ==
  LET open == OpenPeople(pl, d, sched)
      mapped == [i \in 1..Len(open) |->
                   [person |-> open[i],
                    priority |-> calculateGCPriority(open[i], actual[open[i].id],
                                                     target[open[i].id])]]
      order == SortDesc([i \in 1..Len(mapped) |-> mapped[i].priority])
  IN [k \in 1..Len(mapped) |-> mapped[order[k]]]

\* Mutant: sort() is applied to the roster itself, which comes out with
\* the sorted candidates first.
RosterSortedInPlace(ps, sorted) ==
  [k \in 1..Len(sorted) |-> sorted[k].person] \o
  SelectSeq(ps, LAMBDA p : \A k \in 1..Len(sorted) : sorted[k].person.id # p.id)

\* Step 1: sort() works in place, on the array that filter() and map() have
\* just built; the roster handed in keeps its order.
RosterAfterSort(ps, sorted) == ps

\* Mutant: step 1 takes the candidate whatever the priority.
GCFillOneAnyPriority(pl, d, candidate, actual) ==
  [plan |-> Assign(pl, d, candidate.person.id, "GC"),
   actualDays |-> Credit(actual, candidate.person.id, "gc", 1)]

\* Step 1, one candidate: "Only assign if they have positive priority".
GCFillOne(pl, d, candidate, actual) ==
  IF candidate.priority > 0
    THEN [plan |-> Assign(pl, d, candidate.person.id, "GC"),
          actualDays |-> Credit(actual, candidate.person.id, "gc", 1)]
    ELSE [plan |-> pl, actualDays |-> actual]

\* Step 1.5: the open people sorted by their GC priority, highest first.
AvailableForGCOf(pl, d, sched, actual, target) ==
  LET open == OpenPeople(pl, d, sched)
      order == SortDesc([i \in 1..Len(open) |->
                 calculateGCPriority(open[i], actual[open[i].id], target[open[i].id])])
  IN [k \in 1..Len(open) |-> open[order[k]]]

\* Step 1.5, "Ensure GC has at least 3 people if anyone is there": the first
\* additionalNeeded of availableForGC, or all of them when there are fewer.
FloorCorrectionOf(pl, d, sched, actual, target) ==
  LET currentGCCount == dayUsage(pl, d, "GC")
      availableForGC == AvailableForGCOf(pl, d, sched, actual, target)
      additionalNeeded == GCFloor - currentGCCount
      taken == {availableForGC[i].id :
                  i \in 1..Min(additionalNeeded, Len(availableForGC))}
  IN IF currentGCCount > 0 /\ currentGCCount < GCFloor
       THEN [plan |-> [pl EXCEPT ![d] =
                         [id \in DOMAIN pl[d] |->
                            IF id \in taken THEN "GC" ELSE pl[d][id]]],
             actualDays |-> [id \in DOMAIN actual |->
                               IF id \in taken
                                 THEN [actual[id] EXCEPT !.gc = @ + 1]
                                 ELSE actual[id]]]
       ELSE [plan |-> pl, actualDays |-> actual]

\* Mutant: step 2 sends equal priorities to Issy.
RouteOneTiesToIssy(pl, d, p, actual, target) ==
  LET issyPriority == calculateIssyPriority(p, actual[p.id], target[p.id])
      remotePriority == calculateRemotePriority(p, actual[p.id], target[p.id])
  IN IF issyPriority >= remotePriority /\ dayUsage(pl, d, "ISSY") < IssyCapacity
       THEN [plan |-> Assign(pl, d, p.id, "ISSY"),
             actualDays |-> Credit(actual, p.id, "issy", 1)]
       ELSE [plan |-> Assign(pl, d, p.id, "REMOTE"),
             actualDays |-> Credit(actual, p.id, "remote", 1)]

\* Mutant: step 2 does not look at the Issy desks.
RouteOneNoCapacity(pl, d, p, actual, target) ==
  LET issyPriority == calculateIssyPriority(p, actual[p.id], target[p.id])
      remotePriority == calculateRemotePriority(p, actual[p.id], target[p.id])
  IN IF issyPriority > remotePriority
       THEN [plan |-> Assign(pl, d, p.id, "ISSY"),
             actualDays |-> Credit(actual, p.id, "issy", 1)]
       ELSE [plan |-> Assign(pl, d, p.id, "REMOTE"),
             actualDays |-> Credit(actual, p.id, "remote", 1)]

\* Step 2, one person: Issy when its priority is strictly greater than the
\* remote one and Issy has a free desk, else Remote.
RouteOne(pl, d, p, actual, target) ==
  LET issyPriority == calculateIssyPriority(p, actual[p.id], target[p.id])
      remotePriority == calculateRemotePriority(p, actual[p.id], target[p.id])
  IN IF issyPriority > remotePriority /\ dayUsage(pl, d, "ISSY") < IssyCapacity
       THEN [plan |-> Assign(pl, d, p.id, "ISSY"),
             actualDays |-> Credit(actual, p.id, "issy", 1)]
       ELSE [plan |-> Assign(pl, d, p.id, "REMOTE"),
             actualDays |-> Credit(actual, p.id, "remote", 1)]

\* Mutant: step 3 moves the cell and leaves the counters.
LoneOccupantNoRollback(pl, d, actual) ==
  LET issyOccupants == {id \in DOMAIN pl[d] : pl[d][id] = "ISSY"}
  IN IF Cardinality(issyOccupants) = 1
       THEN [plan |-> Assign(pl, d, CHOOSE id \in issyOccupants : TRUE, "REMOTE"),
             actualDays |-> actual]
       ELSE [plan |-> pl, actualDays |-> actual]

\* Mutant: step 3 is left out.
LoneOccupantStays(pl, d, actual) == [plan |-> pl, actualDays |-> actual]

\* Step 3, "Ensure no one is alone at Issy".
LoneOccupantOf(pl, d, actual) ==
  LET issyOccupants == {id \in DOMAIN pl[d] : pl[d][id] = "ISSY"}
  IN IF Cardinality(issyOccupants) = 1
       THEN LET lonePersonId == CHOOSE id \in issyOccupants : TRUE
            IN [plan |-> Assign(pl, d, lonePersonId, "REMOTE"),
                actualDays |-> Credit(Credit(actual, lonePersonId, "issy", -1),
                                      lonePersonId, "remote", 1)]
       ELSE [plan |-> pl, actualDays |-> actual]

\* Version B, Tuesday to Thursday: the open people by Issy priority, the
\* first targetIssyCount of them go to Issy.
AvailableForIssyOf(pl, d, sched, actual, target) ==
  LET open == OpenPeople(pl, d, sched)
      mapped == [i \in 1..Len(open) |->
                   [person |-> open[i],
                    priority |-> calculateIssyPriority(open[i], actual[open[i].id],
                                                       target[open[i].id])]]
      order == SortDesc([i \in 1..Len(mapped) |-> mapped[i].priority])
  IN [k \in 1..Len(mapped) |-> mapped[order[k]]]

\* Mutant: no more than 3 people are sent to Issy.
TueThuIssyAtMostThree(pl, d, sched, actual, target) ==
  LET availableForIssy == AvailableForIssyOf(pl, d, sched, actual, target)
      targetIssyCount == Min(IssyMinTueThu, Max(IssyMinTueThu, Len(availableForIssy)))
      taken == {availableForIssy[i].person.id :
                  i \in 1..Min(targetIssyCount, Len(availableForIssy))}
  IN [plan |-> [pl EXCEPT ![d] =
                  [id \in DOMAIN pl[d] |->
                     IF id \in taken THEN "ISSY" ELSE pl[d][id]]],
      actualDays |-> [id \in DOMAIN actual |->
                        IF id \in taken
                          THEN [actual[id] EXCEPT !.issy = @ + 1]
                          ELSE actual[id]]]

TueThuIssyOf(pl, d, sched, actual, target) ==
  LET availableForIssy == AvailableForIssyOf(pl, d, sched, actual, target)
      targetIssyCount == Min(IssyMaxTueThu, Max(IssyMinTueThu, Len(availableForIssy)))
      taken == {availableForIssy[i].person.id :
                  i \in 1..Min(targetIssyCount, Len(availableForIssy))}
  IN [plan |-> [pl EXCEPT ![d] =
                  [id \in DOMAIN pl[d] |->
                     IF id \in taken THEN "ISSY" ELSE pl[d][id]]],
      actualDays |-> [id \in DOMAIN actual |->
                        IF id \in taken
                          THEN [actual[id] EXCEPT !.issy = @ + 1]
                          ELSE actual[id]]]

\* Version B, Tuesday to Thursday: the people still open, in roster order,
\* go to GC when its priority is strictly greater than the remote one and
\* GC has a free desk, else Remote.
GCRouteOne(pl, d, p, actual, target) ==
  LET gcPriority == calculateGCPriority(p, actual[p.id], target[p.id])
      remotePriority == calculateRemotePriority(p, actual[p.id], target[p.id])
  IN IF gcPriority > remotePriority /\ dayUsage(pl, d, "GC") < GCCapacity
       THEN [plan |-> Assign(pl, d, p.id, "GC"),
             actualDays |-> Credit(actual, p.id, "gc", 1)]
       ELSE [plan |-> Assign(pl, d, p.id, "REMOTE"),
             actualDays |-> Credit(actual, p.id, "remote", 1)]

RECURSIVE GCRouteLoop(_, _, _, _, _, _)
GCRouteLoop(rem, i, pl, d, actual, target) ==
  IF i > Len(rem)
    THEN [plan |-> pl, actualDays |-> actual]
    ELSE LET r == GCRouteOne(pl, d, rem[i], actual, target)
         IN GCRouteLoop(rem, i + 1, r.plan, d, r.actualDays, target)

\* ---------------------------------------------------------------- inputs
\* November 2026 (the 1st is a Sunday) and February 2027 (a Monday).
Months == {[dow1 |-> 0, len |-> 30], [dow1 |-> 1, len |-> 28]}

AllActive(ps) ==
  [i \in 1..Len(ps) |-> [ps[i] EXCEPT !.active = IF @ = "false" THEN @ ELSE "true"]]

\* A roster whose people all ask for Issy only.
IssyOnly(ps) ==
  [i \in 1..Len(ps) |-> [ps[i] EXCEPT !.gcShare = 0, !.issyShare = 100,
                                       !.remoteShare = 0]]

Rosters(v) ==
  IF v = "A"
    THEN {SubSeq(PEOPLE \o ExtraPeopleA, 1, n) : n \in 1..MaxRoster} \cup
         {IssyOnly(SubSeq(PEOPLE \o ExtraPeopleA, 1, MaxRoster))}
    ELSE {PEOPLE_B} \cup
         {AllActive(SubSeq(PEOPLE_B \o ExtraPeopleB, 1, n)) : n \in 1..MaxRoster}

\* Edited shares handed in by the preferences panel (version B only).
PrefsChoices(v) ==
  IF v = "A"
    THEN {Empty}
    ELSE {Empty,
          [id \in {"lea"} |-> [gcShare |-> 0, issyShare |-> 50, remoteShare |-> 50]]}

\* All-hands dates: none; the 3rd business day; the 1st and the 5th (a
\* Monday and a Friday); the 2nd and a date of another month.
BubbleChoices(m) ==
  LET bd == MonthDaysOf(m)
  IN {<< >>, << bd[3] >>, << bd[1], bd[5] >>, << bd[2], 0 >>}

\* Absence maps: none; Karine away on the first three business days;
\* Bertrand and Lea away on different days, one date of another month; an
\* identifier that is no roster person, and Amelie; everybody but Bertrand
\* and Karine away on the 6th business day; Florence and Lea away for most
\* of the third week, Lea on a date of another month too.
OOOChoices(m) ==
  LET bd == MonthDaysOf(m)
  IN {Empty,
      [id \in {"karine"} |-> << bd[1], bd[2], bd[3] >>],
      [id \in {"bertrand", "lea"} |->
         IF id = "bertrand" THEN << bd[1] >> ELSE << bd[2], bd[7], 0 >>],
      [id \in {"ghost", "amelie"} |->
         IF id = "ghost" THEN << bd[3], bd[4] >> ELSE << bd[4] >>],
      [id \in (Ids(PEOPLE_B) \cup Ids(ExtraPeopleA)) \ {"bertrand", "karine"} |->
         << bd[6] >>],
      [id \in {"florence", "lea"} |->
         IF id = "florence" THEN << bd[10], bd[11], bd[12], bd[13], bd[14], bd[15] >>
                            ELSE << bd[12], bd[13], bd[14], bd[15], 0 >>]}

NoResult == [plan |-> Empty, days |-> << >>]

\* useScheduleData with nothing stored: the current month, no all-hands
\* date, an empty table, no day list; oooData is missing and read as {}.
InitialState ==
  [monthISO |-> 1, bubbleLux |-> Empty, plan |-> Empty, days |-> << >>,
   oooData |-> Empty]

\* No file yet: a text is a sequence of lines, a line a sequence of fields.
NoFile == << << "no file" >> >>

Init ==
  /\ version \in {"A", "B"}
  /\ people \in Rosters(version)
  /\ peoplePrefs \in PrefsChoices(version)
  /\ monthStart \in Months
  /\ bubbleLuxDates \in BubbleChoices(monthStart)
  /\ oooData \in OOOChoices(monthStart)
  /\ plan = Empty
  /\ targetDays = Empty
  /\ actualDays = Empty
  /\ pc = "entry"
  /\ dayIndex = 1
  /\ gcCandidates = << >>
  /\ candIndex = 1
  /\ remainingPeople = << >>
  /\ remIndex = 1
  /\ run = 1
  /\ firstResult = NoResult
  /\ state = InitialState
  /\ csvText = NoFile
  /\ download = NoFile
  /\ lastOp = "none"
  /\ ops = 0

\* ---------------------------------------------------------------- actions
\* "Initialize empty schedule map"
InitPlan ==
  /\ pc = "entry"
  /\ plan' = InitPlanOf(Scheduled, monthStart)
  /\ pc' = IF version = "B" THEN "special" ELSE "ooo"
  /\ UNCHANGED << args, targetDays, actualDays, dayIndex, loops, calls >>

\* Version B: "Apply special rules first"
SpecialRules ==
  /\ pc = "special"
  /\ plan' = SpecialRulesOf(plan, Scheduled, monthStart, bubbleLuxDates, oooData)
  /\ pc' = "ooo"
  /\ UNCHANGED << args, targetDays, actualDays, dayIndex, loops, calls >>

ApplyOOO ==
  /\ pc = "ooo"
  /\ plan' = ApplyOOOOf(plan, oooData)
  /\ pc' = "bubble"
  /\ UNCHANGED << args, targetDays, actualDays, dayIndex, loops, calls >>

ApplyBubbleLux ==
  /\ pc = "bubble"
  /\ plan' = ApplyBubbleLuxOf(plan, Scheduled, bubbleLuxDates)
  /\ pc' = "targets"
  /\ UNCHANGED << args, targetDays, actualDays, dayIndex, loops, calls >>

CalcTargets ==
  /\ pc = "targets"
  /\ targetDays' = TargetDaysOf(Scheduled, monthStart, oooData)
  /\ pc' = "actual"
  /\ UNCHANGED << args, plan, actualDays, dayIndex, loops, calls >>

TrackActual ==
  /\ pc = "actual"
  /\ actualDays' = ActualDaysOf(version, plan, Scheduled, bubbleLuxDates, oooData)
  /\ dayIndex' = 1
  /\ pc' = "day"
  /\ UNCHANGED << args, plan, targetDays, loops, calls >>

\* Mutant: the day loop does not return on all-hands days.
SkipsDayNotBubble(v, m, bubble, d) == v = "B" /\ Dow(m, d) \in {1, 5}

\* monthDays.forEach: the days that return at once.
SkipsDay(v, m, bubble, d) ==
  \/ Includes(bubble, d)
  \/ v = "B" /\ Dow(m, d) \in {1, 5}

IsTueThu(m, d) == Dow(m, d) >= 2 /\ Dow(m, d) <= 4

SkipDay ==
  /\ pc = "day"
  /\ dayIndex <= Len(monthDays)
  /\ SkipsDay(version, monthStart, bubbleLuxDates, iso)
  /\ dayIndex' = dayIndex + 1
  /\ UNCHANGED << args, plan, targetDays, actualDays, pc, loops, calls >>

\* Step 1, the candidate list
BeginGCFill ==
  /\ pc = "day"
  /\ dayIndex <= Len(monthDays)
  /\ ~SkipsDay(version, monthStart, bubbleLuxDates, iso)
  /\ version = "B" => ~IsTueThu(monthStart, iso)
  /\ gcCandidates' = GcCandidatesOf(plan, iso, Scheduled, actualDays, targetDays)
  /\ people' = RosterAfterSort(people, gcCandidates')
  /\ candIndex' = 1
  /\ pc' = "gcfill"
  /\ UNCHANGED << version, peoplePrefs, monthStart, bubbleLuxDates, oooData,
                  plan, targetDays, actualDays, dayIndex,
                  remainingPeople, remIndex, calls >>

\* Step 1, one turn of the for loop
GCFillStep ==
  /\ pc = "gcfill"
  /\ candIndex <= Len(gcCandidates)
  /\ dayUsage(plan, iso, "GC") < GCCapacity
  /\ LET r == GCFillOne(plan, iso, gcCandidates[candIndex], actualDays)
     IN /\ plan' = r.plan
        /\ actualDays' = r.actualDays
  /\ candIndex' = candIndex + 1
  /\ UNCHANGED << args, targetDays, pc, dayIndex, gcCandidates,
                  remainingPeople, remIndex, calls >>

\* Step 1, the loop ends: no candidate left, or GC is full (break)
GCFillExit ==
  /\ pc = "gcfill"
  /\ \/ candIndex > Len(gcCandidates)
     \/ dayUsage(plan, iso, "GC") >= GCCapacity
  /\ pc' = "floor"
  /\ UNCHANGED << args, plan, targetDays, actualDays, dayIndex, loops, calls >>

\* Step 1.5, then the list of step 2
FloorCorrection ==
  /\ pc = "floor"
  /\ LET r == FloorCorrectionOf(plan, iso, Scheduled, actualDays, targetDays)
     IN /\ plan' = r.plan
        /\ actualDays' = r.actualDays
        /\ remainingPeople' = OpenPeople(r.plan, iso, Scheduled)
  /\ remIndex' = 1
  /\ pc' = "route"
  /\ UNCHANGED << args, targetDays, dayIndex, gcCandidates, candIndex, calls >>

\* Step 2, one turn of the for loop
RouteStep ==
  /\ pc = "route"
  /\ remIndex <= Len(remainingPeople)
  /\ LET r == RouteOne(plan, iso, remainingPeople[remIndex], actualDays, targetDays)
     IN /\ plan' = r.plan
        /\ actualDays' = r.actualDays
  /\ remIndex' = remIndex + 1
  /\ UNCHANGED << args, targetDays, pc, dayIndex, gcCandidates, candIndex,
                  remainingPeople, calls >>

RouteExit ==
  /\ pc = "route"
  /\ remIndex > Len(remainingPeople)
  /\ pc' = "lone"
  /\ UNCHANGED << args, plan, targetDays, actualDays, dayIndex, loops, calls >>

\* Step 3, and on to the next day
LoneOccupant ==
  /\ pc = "lone"
  /\ LET r == LoneOccupantOf(plan, iso, actualDays)
     IN /\ plan' = r.plan
        /\ actualDays' = r.actualDays
  /\ dayIndex' = dayIndex + 1
  /\ pc' = "day"
  /\ UNCHANGED << args, targetDays, loops, calls >>

\* Version B, Tuesday to Thursday: 3-4 people to Issy
TueThuIssy ==
  /\ pc = "day"
  /\ dayIndex <= Len(monthDays)
  /\ ~SkipsDay(version, monthStart, bubbleLuxDates, iso)
  /\ version = "B"
  /\ IsTueThu(monthStart, iso)
  /\ LET r == TueThuIssyOf(plan, iso, Scheduled, actualDays, targetDays)
     IN /\ plan' = r.plan
        /\ actualDays' = r.actualDays
  /\ pc' = "ttgc"
  /\ UNCHANGED << args, targetDays, dayIndex, loops, calls >>

\* Version B, Tuesday to Thursday: the others to GC or Remote
TueThuGCRoute ==
  /\ pc = "ttgc"
  /\ LET r == GCRouteLoop(OpenPeople(plan, iso, Scheduled), 1, plan, iso,
                          actualDays, targetDays)
     IN /\ plan' = r.plan
        /\ actualDays' = r.actualDays
  /\ pc' = "ttfloor"
  /\ UNCHANGED << args, targetDays, dayIndex, loops, calls >>

\* Version B, Tuesday to Thursday: the GC floor, and on to the next day
TueThuFloor ==
  /\ pc = "ttfloor"
  /\ LET r == FloorCorrectionOf(plan, iso, Scheduled, actualDays, targetDays)
     IN /\ plan' = r.plan
        /\ actualDays' = r.actualDays
  /\ dayIndex' = dayIndex + 1
  /\ pc' = "day"
  /\ UNCHANGED << args, targetDays, loops, calls >>

\* return { plan, days: monthDays.map(yyyyMMdd) }
Return ==
  /\ pc = "day"
  /\ dayIndex > Len(monthDays)
  /\ pc' = "done"
  /\ UNCHANGED << args, plan, targetDays, actualDays, dayIndex, loops, calls >>

Result == [plan |-> plan, days |-> monthDays]

\* handleGenerate is invoked again with the same arguments: the call starts
\* with fresh locals.
Regenerate ==
  /\ pc = "done"
  /\ run < MaxRuns
  /\ firstResult' = IF run = 1 THEN Result ELSE firstResult
  /\ run' = run + 1
  /\ plan' = Empty
  /\ targetDays' = Empty
  /\ actualDays' = Empty
  /\ dayIndex' = 1
  /\ gcCandidates' = << >>
  /\ candIndex' = 1
  /\ remainingPeople' = << >>
  /\ remIndex' = 1
  /\ pc' = "entry"
  /\ UNCHANGED << args, app >>

Next ==
  \/ InitPlan
  \/ SpecialRules
  \/ ApplyOOO
  \/ ApplyBubbleLux
  \/ CalcTargets
  \/ TrackActual
  \/ SkipDay
  \/ BeginGCFill
  \/ GCFillStep
  \/ GCFillExit
  \/ FloorCorrection
  \/ RouteStep
  \/ RouteExit
  \/ LoneOccupant
  \/ TueThuIssy
  \/ TueThuGCRoute
  \/ TueThuFloor
  \/ Return

Spec == Init /\ [][Next]_vars

NextRegen == Next \/ Regenerate

\* Two calls in a row, for the month of November 2026.
InitRegen == Init /\ monthStart = [dow1 |-> 0, len |-> 30]

SpecRegen == InitRegen /\ [][NextRegen]_vars

\* ---------------------------------------------------------------- claims
BusinessDays == Range(monthDays)
IsBubbleDay(d) == Includes(bubbleLuxDates, d)
Absent(id, d) == OooIncludes(oooData, id, d)
TagsOfScheduled == {plan[d][id] : d \in DOMAIN plan, id \in SchedIds}

\* C1: once the table is initialised, and so in the table generateSchedule
\* returns (both versions), every business day of the month has a row, the
\* row has a cell for every scheduled person, and the cell holds one of the
\* tags GC, ISSY, REMOTE, OOO.
C1_EveryCellTagged ==
  pc # "entry" =>
    \A d \in BusinessDays :
      /\ d \in DOMAIN plan
      /\ \A id \in SchedIds : id \in DOMAIN plan[d] /\ plan[d][id] \in Tags

\* A returned table of several people in which all four tags occur.
C1_Witness ==
  /\ pc = "done"
  /\ Len(Scheduled) >= 3
  /\ TagsOfScheduled = Tags

\* C2: from the absence phase on, and so in the returned table, the cell of
\* a scheduled person on a business day listed in that person's absences is
\* OOO: neither the all-hands rule, nor the weekday pins, nor the greedy
\* phase overwrite it.
C2_AbsencePrecedence ==
  pc \notin {"entry", "special", "ooo"} =>
    \A d \in BusinessDays : \A id \in SchedIds :
      Absent(id, d) => plan[d][id] = "OOO"

\* Version B returned a table in which Karine is absent on an all-hands
\* Monday (all-hands rule and weekday pin both apply to that cell) and on a
\* day of the greedy phase.
C2_Witness ==
  /\ pc = "done"
  /\ version = "B"
  /\ "karine" \in SchedIds
  /\ \E d \in BusinessDays :
       /\ IsBubbleDay(d) /\ Dow(monthStart, d) = 1
       /\ Absent("karine", d) /\ plan[d]["karine"] = "OOO"
  /\ \E d \in BusinessDays :
       /\ ~IsBubbleDay(d) /\ IsTueThu(monthStart, d)
       /\ Absent("karine", d) /\ plan[d]["karine"] = "OOO"

\* C3: from the all-hands phase on, and so in the returned table, on every
\* all-hands date that is a business day of the month every scheduled person
\* who is not absent that day is at ISSY, Mondays and Fridays of the
\* weekday-pin version included; the greedy phase changes none of these
\* cells.
C3_AllHandsPrecedence ==
  pc \notin {"entry", "special", "ooo", "bubble"} =>
    \A d \in BusinessDays : \A id \in SchedIds :
      (IsBubbleDay(d) /\ ~Absent(id, d)) => plan[d][id] = "ISSY"

\* Version B returned a table with an all-hands Monday or Friday on which
\* the pinned Karine and Bertrand are at ISSY, and an all-hands day on which
\* a scheduled person is absent.
C3_Witness ==
  /\ pc = "done"
  /\ version = "B"
  /\ {"karine", "bertrand"} \subseteq SchedIds
  /\ \E d \in BusinessDays :
       /\ IsBubbleDay(d) /\ Dow(monthStart, d) \in {1, 5}
       /\ plan[d]["karine"] = "ISSY" /\ plan[d]["bertrand"] = "ISSY"
  /\ \E d \in BusinessDays : \E id \in SchedIds :
       IsBubbleDay(d) /\ plan[d][id] = "OOO"

PresentIds(d) == {id \in SchedIds : ~Absent(id, d)}

\* C4 as stated: in the returned table, whatever the roster size, every
\* business day (all-hands days included) has at most 5 people at GC and at
\* most 12 at ISSY.
C4_Original ==
  pc = "done" =>
    \A d \in BusinessDays :
      /\ dayUsage(plan, d, "GC") <= GCCapacity
      /\ dayUsage(plan, d, "ISSY") <= IssyCapacity

\* C4 amended: at every moment of the run, and so in the returned table,
\* every business day has at most 5 people at GC, and every business day
\* that is not an all-hands day has at most 12 people at ISSY; on an
\* all-hands day the people at ISSY are the scheduled people not absent
\* that day, however many they are.
C4_CapacityExceptAllHands ==
  pc # "entry" =>
    \A d \in BusinessDays :
      /\ dayUsage(plan, d, "GC") <= GCCapacity
      /\ ~IsBubbleDay(d) => dayUsage(plan, d, "ISSY") <= IssyCapacity
      /\ (IsBubbleDay(d) /\ pc \notin {"special", "ooo", "bubble"}) =>
           {id \in DOMAIN plan[d] : plan[d][id] = "ISSY"} = PresentIds(d)

\* A returned table with a greedy day on which Issy is full and one more
\* present person was sent to REMOTE, and with an all-hands day holding more
\* than 12 people.
C4_Witness ==
  /\ pc = "done"
  /\ \E d \in BusinessDays :
       /\ ~IsBubbleDay(d)
       /\ dayUsage(plan, d, "ISSY") = IssyCapacity
       /\ \E id \in PresentIds(d) : plan[d][id] = "REMOTE"
  /\ \E d \in BusinessDays :
       IsBubbleDay(d) /\ dayUsage(plan, d, "ISSY") > IssyCapacity

\* The business days the day loop has finished.
ProcessedDays ==
  IF pc = "done" THEN BusinessDays
  ELSE IF pc = "day" THEN {monthDays[k] : k \in 1..(dayIndex - 1)}
  ELSE {}

\* C5 as stated (version A): in the returned table every business day has
\* no one at GC, or at least 3 and at most 5 people.
C5_GCFloor ==
  (version = "A" /\ pc = "done") =>
    \A d \in BusinessDays :
      \/ dayUsage(plan, d, "GC") = 0
      \/ /\ dayUsage(plan, d, "GC") >= GCFloor
         /\ dayUsage(plan, d, "GC") <= GCCapacity

\* C6 (version A): once the day loop has finished a business day that is
\* not an all-hands day, and so in the returned table, the number of people
\* at ISSY that day is 0 or at least 2.
C6_NoLoneIssy ==
  version = "A" =>
    \A d \in ProcessedDays :
      ~IsBubbleDay(d) => dayUsage(plan, d, "ISSY") # 1

\* Step 3 is about to run on a day that step 2 left with exactly one person
\* at ISSY.
C6_Witness ==
  /\ version = "A"
  /\ pc = "lone"
  /\ ~IsBubbleDay(iso)
  /\ dayUsage(plan, iso, "ISSY") = 1
  /\ Len(remainingPeople) >= 2

\* C7 as stated (version B): in the returned table every business day has
\* no one at GC or at least 3 people.
C7_GCFloorPins ==
  (version = "B" /\ pc = "done") =>
    \A d \in BusinessDays :
      dayUsage(plan, d, "GC") = 0 \/ dayUsage(plan, d, "GC") >= GCFloor

CandidateAtGC(k) == plan[iso][gcCandidates[k].person.id] = "GC"

\* Step 1 has ended and exactly one GC slot was left after its fourth
\* assignment: the candidates from the fifth on were open at that moment.
OneSlotRemained ==
  /\ version = "A"
  /\ pc = "floor"
  /\ Len(gcCandidates) > GCCapacity
  /\ \A k \in 1..(GCCapacity - 1) : CandidateAtGC(k)

\* target.gc - actual.gc of the k-th candidate when one slot remained.
DeficitThen(k) ==
  LET id == gcCandidates[k].person.id
  IN targetDays[id].gc - (actualDays[id].gc - (IF CandidateAtGC(k) THEN 1 ELSE 0))

SameShares(a, b) ==
  /\ gcCandidates[a].person.gcShare = gcCandidates[b].person.gcShare
  /\ gcCandidates[a].person.issyShare = gcCandidates[b].person.issyShare
  /\ gcCandidates[a].person.remoteShare = gcCandidates[b].person.remoteShare

\* C9 as stated: with one GC slot left and two open candidates of identical
\* shares, the one with the larger deficit is assigned GC by step 1 and the
\* other is not.
C9_Original ==
  OneSlotRemained =>
    \A a, b \in GCCapacity..Len(gcCandidates) :
      (SameShares(a, b) /\ DeficitThen(a) > DeficitThen(b)) =>
        (CandidateAtGC(a) /\ ~CandidateAtGC(b))

\* C9: with one GC slot left and two open candidates of identical shares,
\* step 1 never assigns GC to the one with the smaller deficit, and it
\* assigns GC to the one with the larger deficit exactly when that one is
\* the next candidate in priority order and its priority, deficit * 2 +
\* share / 100, is positive.
C9_DeficitFairness ==
  OneSlotRemained =>
    \A a, b \in GCCapacity..Len(gcCandidates) :
      (SameShares(a, b) /\ DeficitThen(a) > DeficitThen(b)) =>
        /\ ~CandidateAtGC(b)
        /\ CandidateAtGC(a) <=>
             (a = GCCapacity /\
              DeficitThen(a) * 200 + gcCandidates[a].person.gcShare > 0)

\* The last slot went to the candidate with the larger deficit, while a
\* candidate of identical shares whose priority was positive too stayed out.
C9_Witness ==
  /\ OneSlotRemained
  /\ \E a, b \in GCCapacity..Len(gcCandidates) :
       /\ SameShares(a, b)
       /\ DeficitThen(a) > DeficitThen(b)
       /\ DeficitThen(b) * 200 + gcCandidates[b].person.gcShare > 0
       /\ CandidateAtGC(a)
       /\ ~CandidateAtGC(b)

\* ---------------------------------------------------------------- tie-break
RosterIndex(id) == CHOOSE k \in 1..Len(Scheduled) : Scheduled[k].id = id

OpenWithEqualGCPriority(a, b) ==
  /\ plan[iso][a.id] = "REMOTE"
  /\ plan[iso][b.id] = "REMOTE"
  /\ calculateGCPriority(a, actualDays[a.id], targetDays[a.id])
       = calculateGCPriority(b, actualDays[b.id], targetDays[b.id])

\* C10: in the step-1 fill and in the floor correction, of two open people
\* with equal GC priority the one later in the roster is given GC only if
\* the earlier one has it as well.
C10_TieBreakRosterOrder ==
  [][ (version = "A" /\ pc \in {"gcfill", "floor"}) =>
        \A a, b \in Range(Scheduled) :
          (/\ RosterIndex(a.id) < RosterIndex(b.id)
           /\ OpenWithEqualGCPriority(a, b)
           /\ plan'[iso][b.id] = "GC") => plan'[iso][a.id] = "GC" ]_vars

\* Step 1 has ended with GC full: of two candidates with equal positive
\* priority the earlier in the roster has a GC cell and the later has not.
C10_Witness ==
  /\ version = "A"
  /\ pc = "floor"
  /\ \E a, b \in 1..Len(gcCandidates) :
       /\ RosterIndex(gcCandidates[a].person.id) < RosterIndex(gcCandidates[b].person.id)
       /\ gcCandidates[a].priority = gcCandidates[b].priority
       /\ gcCandidates[a].priority > 0
       /\ CandidateAtGC(a)
       /\ ~CandidateAtGC(b)

\* ---------------------------------------------------------------- counters
\* The day loop is about to look at the first business day.
LoopStarts == pc = "day" /\ dayIndex = 1

\* The all-hands dates the person is not absent on.
AllHandsAttended(id) ==
  Cardinality({i \in 1..Len(bubbleLuxDates) : ~Absent(id, bubbleLuxDates[i])})

\* The person's REMOTE cells on the days the loop returns from at once.
SettledRemote(id) ==
  Cardinality({d \in BusinessDays :
     SkipsDay(version, monthStart, bubbleLuxDates, d) /\ plan[d][id] = "REMOTE"})

\* C11: when the day loop starts, in both versions, each scheduled person's
\* Issy counter is the number of all-hands dates the person is not absent
\* on, and the GC and remote counters count no cell the loop has yet to
\* decide.
C11_AllHandsSeeding ==
  LoopStarts =>
    \A id \in SchedIds :
      /\ actualDays[id].issy = AllHandsAttended(id)
      /\ actualDays[id].gc <= PreAssigned(plan, id, "GC")
      /\ actualDays[id].remote <= SettledRemote(id)

\* ------------------------------------------------------------------ targets
\* The targets have just been computed; no later step writes them.
TargetsSet == pc = "actual"

\* t is x / 100 rounded to the nearest integer, halves up.
IsRoundedHalfUp(t, x) == 100 * t - 50 <= x /\ x < 100 * t + 50

AbsenceListLength(id) == IF id \in DOMAIN oooData THEN Len(oooData[id]) ELSE 0

TargetsFor(id, availability) ==
  /\ IsRoundedHalfUp(targetDays[id].gc, PersonOf(id).gcShare * availability)
  /\ IsRoundedHalfUp(targetDays[id].issy, PersonOf(id).issyShare * availability)
  /\ targetDays[id].remote = availability - targetDays[id].gc - targetDays[id].issy

\* C12 as stated: availability is the number of business days minus the
\* number of dates in the person's absence list.
C12_Original ==
  TargetsSet =>
    \A id \in SchedIds : TargetsFor(id, Len(monthDays) - AbsenceListLength(id))

\* C12: availability is the number of business days of the month that are
\* not in the person's absence list; the GC and Issy targets are the shares
\* of it rounded to the nearest integer, halves up, and the remote target is
\* what is left, so the three sum to the availability.
C12_TargetAllocation ==
  TargetsSet =>
    \A id \in SchedIds :
      LET availability == Cardinality({d \in BusinessDays : ~Absent(id, d)})
      IN /\ TargetsFor(id, availability)
         /\ targetDays[id].gc + targetDays[id].issy + targetDays[id].remote
              = availability

\* Lea's absence list holds a date of another month and Florence's Issy
\* target is a half rounded up: 10 % of 15 days gives 2.
C12_Witness ==
  /\ TargetsSet
  /\ {"florence", "lea"} \subseteq SchedIds
  /\ "lea" \in DOMAIN oooData
  /\ Includes(oooData["lea"], 0)
  /\ targetDays["lea"].gc + targetDays["lea"].issy + targetDays["lea"].remote
       = Len(monthDays) - (Len(oooData["lea"]) - 1)
  /\ PersonOf("florence").issyShare = 10
  /\ targetDays["florence"].issy = 2
  /\ targetDays["florence"].gc + targetDays["florence"].issy
       + targetDays["florence"].remote = 15

\* ---------------------------------------------------------- step 1, step 2
StepOneEnded == version = "A" /\ pc = "floor"

\* min(5, number of candidates with GC priority > 0)
StepOneQuota ==
  Min(GCCapacity,
      Cardinality({k \in 1..Len(gcCandidates) : gcCandidates[k].priority > 0}))

\* C19: at the end of step 1 of a day, the candidates are the people of the
\* roster that were open, in descending order of GC priority (deficit * 2 +
\* share / 100 at the start of the day); the GC cells of the day are those
\* of the first k of them, k = min(5, number with priority > 0), so nobody
\* with priority <= 0 has one, and each of the k has the GC counter one up.
C19_StepOneSelection ==
  StepOneEnded =>
    /\ {gcCandidates[k].person.id : k \in 1..Len(gcCandidates)}
         = {id \in SchedIds : plan[iso][id] \in {"GC", "REMOTE"}}
    /\ \A i, j \in 1..Len(gcCandidates) :
         i < j => gcCandidates[i].priority >= gcCandidates[j].priority
    /\ \A k \in 1..Len(gcCandidates) :
         /\ CandidateAtGC(k) <=> k <= StepOneQuota
         /\ CandidateAtGC(k) => gcCandidates[k].priority > 0
         /\ gcCandidates[k].priority
              = DeficitThen(k) * 200 + gcCandidates[k].person.gcShare
    /\ dayUsage(plan, iso, "GC") = StepOneQuota

\* Step 1 has given GC to some but fewer than 5 people, and has left out a
\* candidate whose deficit is negative although desks were free.
C19_Witness ==
  /\ StepOneEnded
  /\ StepOneQuota \in 1..(GCCapacity - 1)
  /\ CandidateAtGC(StepOneQuota)
  /\ actualDays[gcCandidates[StepOneQuota].person.id].gc > 1
  /\ \E k \in 1..Len(gcCandidates) :
       /\ DeficitThen(k) < 0
       /\ ~CandidateAtGC(k)

\* Step 2 is looking at the next person of its list.
RouteTurn == version = "A" /\ pc = "route" /\ remIndex <= Len(remainingPeople)

IssyBeatsRemote(p) ==
  (targetDays[p.id].issy - actualDays[p.id].issy) * 200 + p.issyShare
    > (targetDays[p.id].remote - actualDays[p.id].remote) * 200 + p.remoteShare

\* C20: step 2 goes through the people still open after the GC steps in
\* roster order; each is tagged ISSY if the Issy priority is strictly
\* greater than the remote priority and fewer than 12 cells of the day are
\* ISSY at that moment, and REMOTE otherwise; no other cell changes.
C20_IssyRemoteRouting ==
  [][ /\ (version = "A" /\ pc = "floor") =>
           remainingPeople' = SelectSeq(Scheduled, LAMBDA p : plan'[iso][p.id] = "REMOTE")
      /\ RouteTurn =>
           LET p == remainingPeople[remIndex]
               tag == IF IssyBeatsRemote(p) /\
                         Cardinality({id \in DOMAIN plan[iso] : plan[iso][id] = "ISSY"}) < 12
                        THEN "ISSY" ELSE "REMOTE"
           IN plan' = [plan EXCEPT ![iso][p.id] = tag] ]_vars

\* Step 2 has sent to REMOTE a person whose Issy and remote priorities were
\* equal, and to ISSY the person before.
C20_Witness ==
  /\ version = "A"
  /\ pc = "route"
  /\ remIndex > 2
  /\ LET p == remainingPeople[remIndex - 1]
         q == remainingPeople[remIndex - 2]
     IN /\ plan[iso][p.id] = "REMOTE"
        /\ (targetDays[p.id].issy - actualDays[p.id].issy) * 200 + p.issyShare
             = (targetDays[p.id].remote - (actualDays[p.id].remote - 1)) * 200
                 + p.remoteShare
        /\ plan[iso][q.id] = "ISSY"

\* ======================================================================= App
\* Number of handlers run in one behaviour of the App specifications.
MaxOps == 3

\* The months the month picker is set to: 1 is November 2026, 2 is
\* February 2027. An ISO date of the App is month * 100 + day of the month.
AppMonths == << [dow1 |-> 0, len |-> 30], [dow1 |-> 1, len |-> 28] >>
yyyyMMdd(mi, d) == mi * 100 + d
MonthOf(date) == date \div 100
DayOf(date) == date % 100

\* eachDayOfInterval(...).filter(isBusinessDay) of the selected month
businessDays(mi) ==
  [k \in 1..Len(MonthDaysOf(AppMonths[mi])) |->
     yyyyMMdd(mi, MonthDaysOf(AppMonths[mi])[k])]

\* state.bubbleLux[state.monthISO] || []
currentMonthBubbleLux(st) ==
  IF st.monthISO \in DOMAIN st.bubbleLux THEN st.bubbleLux[st.monthISO] ELSE << >>

\* The dates as generateSchedule sees them for month mi: the day of the
\* month, 0 for a date of another month.
DatesIn(mi, dates) ==
  [k \in 1..Len(dates) |-> IF MonthOf(dates[k]) = mi THEN DayOf(dates[k]) ELSE 0]

\* person.name
NameOf(id) ==
  CASE id = "bertrand" -> "Bertrand" [] id = "florence" -> "Florence"
    [] id = "nicolas" -> "Nicolas"   [] id = "amelie" -> "Amélie"
    [] id = "karine" -> "Karine"     [] id = "lea" -> "Léa"
    [] id = "dounia" -> "Dounia"     [] id = "laurent" -> "Laurent"
    [] id = "eva" -> "Eva"           [] id = "herve" -> "Hervé"
    [] id = "mathilde" -> "Mathilde" [] id = "rubie" -> "Rubie"
    [] id = "lorraine" -> "Lorraine" [] OTHER -> id

\* ------------------------------------------------------------------- CSV
\* String.prototype.trim on the fields that occur in the texts below.
Trim(field) ==
  CASE field = " Issy " -> "Issy"
    [] field = " Karine" -> "Karine"
    [] field = " " -> ""
    [] OTHER -> field

\* field.includes('BubbleLux')
MentionsBubbleLux(field) == field \in {"BubbleLux Days:", "BubbleLux"}

\* Mutant: the export writes an Issy day as a remote day.
SiteLabelIssyLost(assignment) ==
  IF assignment = "GC" THEN "Grand-Cerf" ELSE "Remote"

\* assignment === 'GC' ? 'Grand-Cerf' : assignment === 'ISSY' ? 'Issy' : 'Remote'
SiteLabel(assignment) ==
  IF assignment = "GC" THEN "Grand-Cerf"
  ELSE IF assignment = "ISSY" THEN "Issy" ELSE "Remote"

\* Mutant: a label that is no site name is stored as an absence.
SiteIdOfUnknownAbsent(label) ==
  IF label = "Grand-Cerf" THEN "GC"
  ELSE IF label = "Issy" THEN "ISSY"
  ELSE IF label = "Remote" THEN "REMOTE" ELSE "OOO"

\* assignment === 'Grand-Cerf' ? 'GC' : assignment === 'Issy' ? 'ISSY' : 'REMOTE'
SiteIdOf(label) ==
  IF label = "Grand-Cerf" THEN "GC"
  ELSE IF label = "Issy" THEN "ISSY" ELSE "REMOTE"

\* state.plan[iso]?.[person.id] || 'REMOTE'
CellOrRemote(pl, date, id) ==
  IF date \in DOMAIN pl /\ id \in DOMAIN pl[date] THEN pl[date][id] ELSE "REMOTE"

\* generateCSV(state, businessDays, people): the header, a line per roster
\* person, and the BubbleLux footer after an empty line.
generateCSV(st, bdays, ps) ==
  LET header == << "Person" >> \o [k \in 1..Len(bdays) |-> ToString(bdays[k])]
      rowOf(person) ==
        << NameOf(person.id) >> \o
        [k \in 1..Len(bdays) |-> SiteLabel(CellOrRemote(st.plan, bdays[k], person.id))]
      monthBubbleLux == currentMonthBubbleLux(st)
      footer == IF Len(monthBubbleLux) > 0
                  THEN << << "" >>, << "BubbleLux Days:" >> >> \o
                       [k \in 1..Len(monthBubbleLux) |-> << ToString(monthBubbleLux[k]) >>]
                  ELSE << >>
  IN << header >> \o [i \in 1..Len(ps) |-> rowOf(ps[i])] \o footer

\* line.trim() is empty: the line has no comma and nothing but blanks
IsBlankLine(line) == Len(line) = 1 /\ Trim(line[1]) = ""

\* line.includes('BubbleLux') || !line.includes(',')
StopsParsing(line) ==
  \/ \E k \in 1..Len(line) : MentionsBubbleLux(line[k])
  \/ Len(line) < 2

Thrown == [error |-> "Invalid CSV format"]

\* parseCSV(csvText, businessDays, people)
parseCSV(text, bdays, ps) ==
  LET lines == SelectSeq(text, LAMBDA line : ~IsBlankLine(line))
      stops == {i \in 2..Len(lines) : StopsParsing(lines[i])}
      last == IF stops = {} THEN Len(lines)
              ELSE (CHOOSE i \in stops : \A j \in stops : i <= j) - 1
      \* the lines of the loop whose first field names a roster person
      rowsOf(id) == {i \in 2..last : Trim(lines[i][1]) = NameOf(id)}
      matched == {id \in Ids(ps) : rowsOf(id) # {}}
      lastRowOf(id) == CHOOSE i \in rowsOf(id) : \A j \in rowsOf(id) : j <= i
      assignment(parts, k) ==
        IF k + 1 <= Len(parts) /\ Trim(parts[k + 1]) # ""
          THEN Trim(parts[k + 1]) ELSE "Remote"
  IN IF Len(lines) < 2
       THEN Thrown
       ELSE [plan |-> IF matched = {} THEN Empty
                      ELSE [date \in Range(bdays) |->
                              [id \in matched |->
                                 LET k == CHOOSE j \in 1..Len(bdays) : bdays[j] = date
                                 IN SiteIdOf(assignment(lines[lastRowOf(id)], k))]],
             bubbleLux |-> Empty,
             days |-> bdays]

\* -------------------------------------------------------------- handlers
\* Mutant: the new table is spread over the stored one.
PlanMergedInto(stored, generated) == generated @@ stored

\* setState((s) => ({ ...s, plan, days })): the plan key is replaced.
PlanReplacing(stored, generated) == generated

\* Mutant: the list is not cut to two dates.
BubbleLuxUncut(st, date) ==
  LET monthBubbleLux == currentMonthBubbleLux(st)
      next == IF Includes(monthBubbleLux, date)
                THEN SelectSeq(monthBubbleLux, LAMBDA x : x # date)
                ELSE Append(monthBubbleLux, date)
  IN [st EXCEPT !.bubbleLux = (st.monthISO :> next) @@ st.bubbleLux]

\* setBubbleLux(iso): the state it sets.
BubbleLuxToggled(st, date) ==
  LET monthBubbleLux == currentMonthBubbleLux(st)
      next == IF Includes(monthBubbleLux, date)
                THEN SelectSeq(monthBubbleLux, LAMBDA x : x # date)
                ELSE SubSeq(Append(monthBubbleLux, date), 1,
                            Min(2, Len(monthBubbleLux) + 1))
  IN [st EXCEPT !.bubbleLux = (st.monthISO :> next) @@ st.bubbleLux]

\* toggleOOO(personId, iso): the state it sets.
OOOToggled(st, id, date) ==
  LET list == IF id \in DOMAIN st.oooData THEN st.oooData[id] ELSE << >>
      next == IF Includes(list, date)
                THEN SelectSeq(list, LAMBDA d : d # date)
                ELSE Append(list, date)
  IN [st EXCEPT !.oooData = (id :> next) @@ st.oooData]

\* Mutant: the row of the day is replaced by the one cell.
CellSetRowReplaced(st, date, id, site) ==
  [st EXCEPT !.plan = (date :> (id :> site)) @@ st.plan]

\* setCell(iso, personId, siteId): the state it sets.
CellSet(st, date, id, site) ==
  LET row == IF date \in DOMAIN st.plan THEN st.plan[date] ELSE Empty
  IN [st EXCEPT !.plan = (date :> ((id :> site) @@ row)) @@ st.plan]

\* importCSV, reader.onload: setState((s) => ({ ...s, ...imported })), or
\* the alert of the catch block, which leaves the state alone.
Imported(st, imported) ==
  IF "error" \in DOMAIN imported
    THEN st
    ELSE [st EXCEPT !.plan = imported.plan,
                    !.bubbleLux = imported.bubbleLux,
                    !.days = imported.days]

AppIdle == pc = "idle" /\ ops < MaxOps

Done(op) == lastOp' = op /\ ops' = ops + 1

generator == << version, people, peoplePrefs, monthStart, bubbleLuxDates, oooData,
                plan, targetDays, actualDays, pc, dayIndex, loops, run, firstResult >>

\* handleGenerate calls generateSchedule with what the state holds.
handleGenerate ==
  /\ AppIdle
  /\ monthStart' = AppMonths[state.monthISO]
  /\ bubbleLuxDates' = DatesIn(state.monthISO, currentMonthBubbleLux(state))
  /\ oooData' = [id \in DOMAIN state.oooData |->
                   DatesIn(state.monthISO, state.oooData[id])]
  /\ plan' = Empty
  /\ targetDays' = Empty
  /\ actualDays' = Empty
  /\ dayIndex' = 1
  /\ gcCandidates' = << >>
  /\ candIndex' = 1
  /\ remainingPeople' = << >>
  /\ remIndex' = 1
  /\ pc' = "entry"
  /\ UNCHANGED << version, people, peoplePrefs, run, firstResult, app >>

\* The table generateSchedule returned, under the ISO dates of the month.
ReturnedPlan ==
  [date \in {yyyyMMdd(state.monthISO, d) : d \in DOMAIN plan} |-> plan[DayOf(date)]]

\* handleGenerate stores what generateSchedule returned.
setStateGenerated ==
  /\ pc = "done"
  /\ state' = [state EXCEPT !.plan = PlanReplacing(state.plan, ReturnedPlan),
                            !.days = businessDays(state.monthISO)]
  /\ pc' = "idle"
  /\ Done("handleGenerate")
  /\ UNCHANGED << args, plan, targetDays, actualDays, dayIndex, loops, run,
                  firstResult, csvText, download >>

\* The dates, people and tags the handlers below are tried with.
ToggleDates(mi) == {businessDays(mi)[k] : k \in {1, 3, 5}}
AbsenceToggles(mi) == {<< "karine", businessDays(mi)[3] >>,
                       << "lea", businessDays(mi)[2] >>}
CellEdits(mi) == {<< businessDays(mi)[1], "bertrand", "OOO" >>,
                  << businessDays(mi)[1], "bertrand", "ISSY" >>}

setBubbleLux ==
  /\ AppIdle
  /\ \E date \in ToggleDates(state.monthISO) :
       state' = BubbleLuxToggled(state, date)
  /\ Done("setBubbleLux")
  /\ UNCHANGED << generator, csvText, download >>

toggleOOO ==
  /\ AppIdle
  /\ \E t \in AbsenceToggles(state.monthISO) :
       state' = OOOToggled(state, t[1], t[2])
  /\ Done("toggleOOO")
  /\ UNCHANGED << generator, csvText, download >>

setCell ==
  /\ AppIdle
  /\ \E c \in CellEdits(state.monthISO) :
       state' = CellSet(state, c[1], c[2], c[3])
  /\ Done("setCell")
  /\ UNCHANGED << generator, csvText, download >>

\* The month picker: setState((s) => ({ ...s, monthISO }))
setMonth ==
  /\ AppIdle
  /\ \E mi \in DOMAIN AppMonths :
       /\ mi # state.monthISO
       /\ state' = [state EXCEPT !.monthISO = mi]
  /\ Done("setMonth")
  /\ UNCHANGED << generator, csvText, download >>

exportCSV ==
  /\ AppIdle
  /\ download' = generateCSV(state, businessDays(state.monthISO), people)
  /\ Done("exportCSV")
  /\ UNCHANGED << generator, state, csvText >>

\* The files importCSV is tried with, for a month with the given days.
HeaderOf(bdays) == << "Person" >> \o [k \in 1..Len(bdays) |-> ToString(bdays[k])]

\* An empty file.
EmptyText == << << "" >> >>

\* A header and nothing else, but an empty line.
HeaderOnlyText(bdays) == << HeaderOf(bdays), << " " >> >>

\* A header and one line that names nobody of the roster.
NobodyText(bdays) == << HeaderOf(bdays), << "Nobody", "Issy", "Grand-Cerf" >> >>

\* A header, a line for Bertrand with a known, a padded, an unknown and an
\* empty label and no further column, a line without a comma, and a line
\* for Karine.
BrokenText(bdays) ==
  << HeaderOf(bdays),
     << "Bertrand", "Grand-Cerf", " Issy ", "Office", "", "Remote" >>,
     << "garbage" >>,
     << "Karine", "Issy", "Issy" >> >>

\* No header: the first line is a line for Bertrand; then Karine with a
\* padded name, a line that names nobody, and Florence.
HeaderlessText(bdays) ==
  << << "Bertrand", "Issy", "Issy" >>,
     << " Karine", "Grand-Cerf", "Issy" >>,
     << "Nobody", "Issy" >>,
     << "Florence", "Issy" >> >>

ImportFiles(mi) ==
  LET bdays == businessDays(mi)
  IN {EmptyText, HeaderOnlyText(bdays), NobodyText(bdays), BrokenText(bdays),
      HeaderlessText(bdays)}

\* importCSV: the file is one of the above or the last export.
importCSV ==
  /\ AppIdle
  /\ \E text \in ImportFiles(state.monthISO) \cup ({download} \ {NoFile}) :
       /\ csvText' = text
       /\ state' = Imported(state,
                     parseCSV(text, businessDays(state.monthISO), people))
  /\ Done("importCSV")
  /\ UNCHANGED << generator, download >>

InitApp ==
  /\ version \in {"A", "B"}
  /\ people = IF version = "A" THEN PEOPLE ELSE PEOPLE_B
  /\ peoplePrefs = Empty
  /\ monthStart = AppMonths[1]
  /\ bubbleLuxDates = << >>
  /\ oooData = Empty
  /\ plan = Empty
  /\ targetDays = Empty
  /\ actualDays = Empty
  /\ pc = "idle"
  /\ dayIndex = 1
  /\ gcCandidates = << >>
  /\ candIndex = 1
  /\ remainingPeople = << >>
  /\ remIndex = 1
  /\ run = 1
  /\ firstResult = NoResult
  /\ state = InitialState
  /\ csvText = NoFile
  /\ download = NoFile
  /\ lastOp = "none"
  /\ ops = 0

NextApp ==
  \/ Next
  \/ handleGenerate
  \/ setStateGenerated
  \/ setBubbleLux
  \/ toggleOOO
  \/ setCell
  \/ setMonth
  \/ exportCSV
  \/ importCSV

SpecApp == InitApp /\ [][NextApp]_vars

\* ------------------------------------------------------------- App claims
\* What handleGenerate hands to generateSchedule, read from the state.
ArgumentsFromState ==
  /\ monthStart = AppMonths[state.monthISO]
  /\ bubbleLuxDates = DatesIn(state.monthISO, currentMonthBubbleLux(state))
  /\ oooData = [id \in DOMAIN state.oooData |->
                  DatesIn(state.monthISO, state.oooData[id])]

\* C13: when generateSchedule has returned, handleGenerate stores exactly
\* the returned table and day list, whatever edits and imports came before,
\* and changes nothing else; when the handler before was handleGenerate as
\* well, the state stays as it is.
C13_RegenerationReplaces ==
  [][ pc = "done" =>
        /\ ArgumentsFromState
        /\ state' = [state EXCEPT !.plan = ReturnedPlan,
                                  !.days = businessDays(state.monthISO)]
        /\ lastOp = "handleGenerate" => state' = state ]_vars

\* A file was imported in November, the month was changed and the table
\* was generated: the stored table is the generated one, of February.
C13_Witness ==
  /\ pc = "idle"
  /\ lastOp = "handleGenerate"
  /\ csvText = BrokenText(businessDays(1))
  /\ state.monthISO = 2
  /\ state.plan = ReturnedPlan
  /\ DOMAIN state.plan = Range(businessDays(2))

NoDuplicate(list) == \A i, j \in 1..Len(list) : list[i] = list[j] => i = j

Without(list, date) == SelectSeq(list, LAMBDA x : x # date)

\* C14: in every state the handlers reach, month changes included, the
\* all-hands list of every month holds at most 2 dates and none twice; a
\* setBubbleLux step removes the date when it is in the list of the
\* selected month, appends it when the list holds fewer than 2 dates, and
\* leaves the list as it is when it holds 2; the lists of the other months
\* stay.
C14_AllHandsAtMostTwo ==
  [][ /\ \A mi \in DOMAIN state'.bubbleLux :
           Len(state'.bubbleLux[mi]) <= 2 /\ NoDuplicate(state'.bubbleLux[mi])
      /\ (lastOp' = "setBubbleLux" /\ ops' = ops + 1) =>
           \E date \in ToggleDates(state.monthISO) :
             LET list == currentMonthBubbleLux(state)
             IN /\ currentMonthBubbleLux(state') =
                     IF Includes(list, date) THEN Without(list, date)
                     ELSE IF Len(list) = 2 THEN list
                     ELSE Append(list, date)
                /\ \A mi \in DOMAIN state.bubbleLux \ {state.monthISO} :
                     state'.bubbleLux[mi] = state.bubbleLux[mi] ]_vars

\* Three toggles, nothing else: two dates are selected, the third toggle
\* was that of another date and left the list as it was.
C14_Witness ==
  /\ pc = "idle"
  /\ lastOp = "setBubbleLux"
  /\ ops = 3
  /\ state.monthISO = 1
  /\ Len(currentMonthBubbleLux(state)) = 2
  /\ state.plan = Empty
  /\ state.oooData = Empty
  /\ csvText = NoFile
  /\ download = NoFile

\* An importCSV step: the file read is csvText', the state before is state.
ImportStep == lastOp' = "importCSV" /\ ops' = ops + 1

\* A line with a comma whose first field names a person of the roster.
ValidPersonRow(line, ps) ==
  Len(line) >= 2 /\ \E id \in Ids(ps) : Trim(line[1]) = NameOf(id)

NoHeaderRow(text) == text[1][1] # "Person"

TooFewColumns(text, bdays) ==
  \E i \in 2..Len(text) : ~IsBlankLine(text[i]) /\ Len(text[i]) < 1 + Len(bdays)

NoMatchingRow(text, ps) == \A i \in 2..Len(text) : ~ValidPersonRow(text[i], ps)

\* C15: an importCSV step with a text that has no header row, a row with
\* fewer columns than the month has business days, or no row that names a
\* roster person leaves the stored table, all-hands dates, absence map and
\* day list as they were.
C15_MalformedImportAborts ==
  [][ ( /\ ImportStep
        /\ \/ NoHeaderRow(csvText')
           \/ TooFewColumns(csvText', businessDays(state.monthISO))
           \/ NoMatchingRow(csvText', people) )
      => /\ state'.plan = state.plan
         /\ state'.bubbleLux = state.bubbleLux
         /\ state'.oooData = state.oooData
         /\ state'.days = state.days ]_vars

\* The text has a valid person row and, further down, a line that is none.
ValidRowsThenMalformed(text, ps) ==
  \E i, j \in 2..Len(text) :
    /\ i < j
    /\ ValidPersonRow(text[i], ps)
    /\ ~IsBlankLine(text[j])
    /\ ~ValidPersonRow(text[j], ps)

\* The table of all the valid person rows of the file.
WholeFileTable(text, bdays, ps) ==
  parseCSV(<< text[1] >> \o
             SelectSeq(Tail(text), LAMBDA line : ValidPersonRow(line, ps)),
           bdays, ps).plan

\* C16: after an importCSV step with a text that has valid person rows
\* followed by a malformed line, the stored table is the table of before
\* the import or the table of all the valid person rows of the file.
C16_NoParsedPrefix ==
  [][ (ImportStep /\ ValidRowsThenMalformed(csvText', people))
      => \/ state'.plan = state.plan
         \/ state'.plan = WholeFileTable(csvText', businessDays(state.monthISO),
                                         people) ]_vars

\* The lines parseCSV goes through: those after the header and before the
\* first line without a comma or with the word BubbleLux, blank lines put
\* aside.
LinesRead(text) ==
  LET lines == SelectSeq(text, LAMBDA line : ~IsBlankLine(line))
      reads(i) == \A j \in 2..i : ~StopsParsing(lines[j])
  IN [k \in 1..Cardinality({i \in 2..Len(lines) : reads(i)}) |-> lines[k + 1]]

\* The label of the k-th business day on a line, "" when the column is
\* missing.
LabelAt(line, k) == IF k + 1 <= Len(line) THEN Trim(line[k + 1]) ELSE ""

\* C17: after an importCSV of a text with a header and one more line, the
\* day list is that of the month (the import went through) and, for every
\* line read that names a roster person (the last one of that person) and
\* every business day, the stored cell is GC for the label 'Grand-Cerf',
\* ISSY for 'Issy' and REMOTE for every other label, an empty one and a
\* missing column included.
C17_PermissiveLabels ==
  (pc = "idle" /\ lastOp = "importCSV"
     /\ Len(SelectSeq(csvText, LAMBDA line : ~IsBlankLine(line))) >= 2) =>
    LET bdays == businessDays(state.monthISO)
        rows == LinesRead(csvText)
    IN /\ state.days = bdays
       /\ \A i \in 1..Len(rows) : \A id \in Ids(people) :
            ( /\ Trim(rows[i][1]) = NameOf(id)
              /\ \A j \in (i + 1)..Len(rows) : Trim(rows[j][1]) # NameOf(id) )
            => \A k \in 1..Len(bdays) :
                 /\ bdays[k] \in DOMAIN state.plan
                 /\ id \in DOMAIN state.plan[bdays[k]]
                 /\ state.plan[bdays[k]][id] =
                      CASE LabelAt(rows[i], k) = "Grand-Cerf" -> "GC"
                        [] LabelAt(rows[i], k) = "Issy" -> "ISSY"
                        [] OTHER -> "REMOTE"

\* The file with a known, a padded, an unknown and an empty label and
\* missing columns was imported: Bertrand has a cell on every business day.
C17_Witness ==
  LET bdays == businessDays(state.monthISO)
  IN /\ pc = "idle"
     /\ lastOp = "importCSV"
     /\ csvText = BrokenText(bdays)
     /\ state.plan[bdays[1]]["bertrand"] = "GC"
     /\ state.plan[bdays[2]]["bertrand"] = "ISSY"
     /\ state.plan[bdays[3]]["bertrand"] = "REMOTE"
     /\ state.plan[bdays[4]]["bertrand"] = "REMOTE"
     /\ state.plan[bdays[Len(bdays)]]["bertrand"] = "REMOTE"

\* parseCSV(generateCSV(state, businessDays, roster), businessDays, roster)
\* for the state that holds the table generateSchedule returned.
RoundTrip ==
  LET bdays == businessDays(state.monthISO)
  IN parseCSV(generateCSV([state EXCEPT !.plan = ReturnedPlan], bdays, people),
              bdays, people).plan

\* C18 as stated: when generateSchedule has returned, the table parsed from
\* the export of the returned table has the same tag in every cell that
\* was GC, ISSY or REMOTE, REMOTE in every cell that was OOO, and the same
\* set of (day, person) cells.
C18_Original ==
  pc = "done" =>
    LET generated == ReturnedPlan
        parsed == RoundTrip
    IN /\ DOMAIN parsed = DOMAIN generated
       /\ \A date \in DOMAIN generated :
            /\ DOMAIN parsed[date] = DOMAIN generated[date]
            /\ \A id \in DOMAIN generated[date] :
                 parsed[date][id] = IF generated[date][id] = "OOO" THEN "REMOTE"
                                    ELSE generated[date][id]

\* C18: when generateSchedule has returned, the table parsed from the
\* export of the returned table has the days of the returned table and,
\* on each of them, a cell for every person of the roster: the same tag
\* where the returned cell was GC, ISSY or REMOTE, and REMOTE where it was
\* OOO or where the returned table has no cell for that person.
C18_RoundTrip ==
  pc = "done" =>
    LET generated == ReturnedPlan
        parsed == RoundTrip
    IN /\ DOMAIN parsed = DOMAIN generated
       /\ \A date \in DOMAIN generated :
            /\ DOMAIN parsed[date] = Ids(people)
            /\ \A id \in Ids(people) :
                 parsed[date][id] =
                   IF id \notin DOMAIN generated[date] \/ generated[date][id] = "OOO"
                     THEN "REMOTE"
                     ELSE generated[date][id]

\* generateSchedule has returned a table with a GC, an ISSY and an OOO cell
\* and a day on which a person of the roster has no cell.
C18_Witness ==
  /\ pc = "done"
  /\ \A tag \in {"GC", "ISSY", "OOO"} :
       \E date \in DOMAIN ReturnedPlan : \E id \in DOMAIN ReturnedPlan[date] :
         ReturnedPlan[date][id] = tag
  /\ \E date \in DOMAIN ReturnedPlan : DOMAIN ReturnedPlan[date] # Ids(people)
  /\ DOMAIN RoundTrip = DOMAIN ReturnedPlan

\* ------------------------------------------------- counters and the table
\* The all-hands dates are distinct business days of the month.
AllHandsDistinctBusinessDays ==
  /\ NoDuplicate(bubbleLuxDates)
  /\ Range(bubbleLuxDates) \subseteq BusinessDays

\* The days whose cells are final but for step 3: the processed days, and
\* the day being processed once step 2 has ended.
DaysCounted ==
  IF pc = "lone" THEN {monthDays[k] : k \in 1..dayIndex} ELSE ProcessedDays

CellsOf(id, days, tag) == Cardinality({d \in days : plan[d][id] = tag})

CountersMatchTable ==
  \A id \in SchedIds :
    actualDays[id] =
      [gc |-> CellsOf(id, DaysCounted, "GC"),
       issy |-> CellsOf(id, DaysCounted \cup Range(bubbleLuxDates), "ISSY"),
       remote |-> CellsOf(id, DaysCounted, "REMOTE")]

\* C21 (version A, all-hands dates distinct business days of the month):
\* when step 2 of a day has ended, after each processed day and in the
\* end, the gc counter of every person is the number of the person's GC
\* cells on the days processed, the issy counter the number of ISSY cells
\* on those days and the all-hands days, the remote counter the number of
\* REMOTE cells on the days processed, so that OOO cells are counted
\* nowhere; and step 3, on a day with exactly one ISSY cell, makes that
\* cell REMOTE, takes one off the issy counter of the person and adds one
\* to the remote counter.
C21_CounterConsistency ==
  [][ (version = "A" /\ AllHandsDistinctBusinessDays) =>
        /\ pc' \in {"day", "lone", "done"} => CountersMatchTable'
        /\ (pc = "lone" /\ dayUsage(plan, iso, "ISSY") = 1) =>
             \E lone \in SchedIds :
               /\ plan[iso][lone] = "ISSY"
               /\ plan' = [plan EXCEPT ![iso][lone] = "REMOTE"]
               /\ actualDays' = [actualDays EXCEPT ![lone].issy = @ - 1,
                                                   ![lone].remote = @ + 1] ]_vars

\* A day has just been processed on which nobody is at ISSY and a person is
\* REMOTE whom step 2 had sent to ISSY (with the counters of before that
\* day the Issy priority was the greater): step 3 has moved that person.
\* The month has an all-hands day and the table an OOO cell.
C21_Witness ==
  /\ version = "A"
  /\ pc = "day"
  /\ dayIndex > 1
  /\ bubbleLuxDates # << >>
  /\ AllHandsDistinctBusinessDays
  /\ \E d \in BusinessDays : \E id \in SchedIds : plan[d][id] = "OOO"
  /\ LET d == monthDays[dayIndex - 1]
     IN /\ ~IsBubbleDay(d)
        /\ dayUsage(plan, d, "ISSY") = 0
        /\ \E id \in SchedIds :
             /\ plan[d][id] = "REMOTE"
             /\ LET before == [actualDays[id] EXCEPT !.remote = @ - 1]
                IN calculateIssyPriority(PersonOf(id), before, targetDays[id]) >
                   calculateRemotePriority(PersonOf(id), before, targetDays[id])

\* --------------------------------------------------- weekday-pin version
IsMonFri(d) == Dow(monthStart, d) \in {1, 5}

\* C22 (version B): in the returned table, on every Monday and Friday that
\* is not an all-hands day every scheduled person who is not absent that
\* day is GC if Karine, Bertrand or Dounia and REMOTE otherwise; every
\* scheduled person absent on a business day is OOO that day; and Karine,
\* when scheduled, is GC on every day that is no all-hands day and on which
\* she is not absent.
C22_MondayFridayRule ==
  (version = "B" /\ pc = "done") =>
    \A d \in BusinessDays :
      /\ \A id \in SchedIds : Absent(id, d) => plan[d][id] = "OOO"
      /\ (IsMonFri(d) /\ ~IsBubbleDay(d)) =>
           \A id \in SchedIds :
             ~Absent(id, d) =>
               plan[d][id] = IF id \in PinnedIds THEN "GC" ELSE "REMOTE"
      /\ ("karine" \in SchedIds /\ ~IsBubbleDay(d) /\ ~Absent("karine", d)) =>
           plan[d]["karine"] = "GC"

\* A returned table of version B with a Monday or Friday on which Bertrand
\* is absent, Karine is at GC and somebody else is remote, and with Karine
\* at GC on a day in the middle of the week on which others are at Issy.
C22_Witness ==
  /\ version = "B"
  /\ pc = "done"
  /\ \E d \in BusinessDays :
       /\ IsMonFri(d) /\ ~IsBubbleDay(d)
       /\ {"bertrand", "karine", "lea"} \subseteq SchedIds
       /\ Absent("bertrand", d)
       /\ plan[d]["bertrand"] = "OOO"
       /\ plan[d]["karine"] = "GC"
       /\ plan[d]["lea"] = "REMOTE"
  /\ \E d \in BusinessDays :
       /\ ~IsMonFri(d) /\ ~IsBubbleDay(d)
       /\ plan[d]["karine"] = "GC"
       /\ dayUsage(plan, d, "ISSY") > 0

\* The scheduled people the Tuesday-to-Thursday branch finds open on day d:
\* those not absent that day, Karine (pinned to GC) put aside.
OpenOnTueThu(d) == {id \in SchedIds \ {"karine"} : ~Absent(id, d)}

RECURSIVE CountSites(_, _, _)
CountSites(row, ids, usage) ==
  IF ids = {}
    THEN usage
    ELSE LET id == CHOOSE x \in ids : TRUE
             site == row[id]
             sofar == IF site \in DOMAIN usage THEN usage[site] ELSE 0
         IN CountSites(row, ids \ {id}, (site :> (sofar + 1)) @@ usage)

\* Mutant: the absences are not counted.
computeUsageNoAbsence(pl, dayISOs) ==
  [d \in Range(dayISOs) |->
     LET row == IF d \in DOMAIN pl THEN pl[d] ELSE Empty
     IN CountSites(row, {id \in DOMAIN row : row[id] # "OOO"},
                   [site \in Tags |-> 0])]

\* computeUsage(plan, dayISOs)
computeUsage(pl, dayISOs) ==
  [d \in Range(dayISOs) |->
     LET row == IF d \in DOMAIN pl THEN pl[d] ELSE Empty
     IN CountSites(row, DOMAIN row, [site \in Tags |-> 0])]

\* const usageByDay = useMemo(() => computeUsage(state.plan, dayISOs), ...)
usageByDay == computeUsage(state.plan, businessDays(state.monthISO))

\* C24: whenever the App is idle, for every business day of the selected
\* month computeUsage returns a count for GC, ISSY, REMOTE and OOO and for
\* nothing else, each count is the number of cells of the day's row with
\* that tag, the four counts sum to the number of cells of the row, and a
\* day without a row has four counts of 0. (computeUsage is an operator on
\* the table: it has no way to change it.)
C24_UsageAggregation ==
  pc = "idle" =>
    LET cells(d) == IF d \in DOMAIN state.plan THEN DOMAIN state.plan[d] ELSE {}
        tagged(d, site) ==
          Cardinality({id \in cells(d) : state.plan[d][id] = site})
        days == Range(businessDays(state.monthISO))
    IN /\ usageByDay = [d \in days |-> [site \in Tags |-> tagged(d, site)]]
       /\ \A d \in days :
            tagged(d, "GC") + tagged(d, "ISSY") + tagged(d, "REMOTE")
              + tagged(d, "OOO") = Cardinality(cells(d))

\* A generated table was stored in which a day has people under all four
\* tags.
C24_Witness ==
  /\ pc = "idle"
  /\ lastOp = "handleGenerate"
  /\ \E d \in Range(businessDays(state.monthISO)) :
       \A site \in Tags : usageByDay[d][site] > 0

\* ------------------------------------------------------------ persistence
\* localStorage.setItem(STORAGE_KEY, JSON.stringify(state)), run by the
\* effect after every change of the state: the item holds every key of the
\* state, the values being strings, arrays and objects.
localStorageItem(st) == [key \in DOMAIN st |-> st[key]]

\* The initial state of useScheduleData when an item is stored: the month is
\* that of today, bubbleLux, plan and days are read from the item, no other
\* key is (a missing oooData is read as {} by the handlers).
LoadedState(parsed) ==
  [monthISO |-> InitialState.monthISO,
   bubbleLux |-> parsed.bubbleLux,
   plan |-> parsed.plan,
   days |-> parsed.days,
   oooData |-> Empty]

\* The page is loaded again.
reload ==
  /\ AppIdle
  /\ state' = LoadedState(localStorageItem(state))
  /\ Done("reload")
  /\ UNCHANGED << generator, csvText, download >>

NextReload == NextApp \/ reload

SpecReload == InitApp /\ [][NextReload]_vars

\* C25: a reload of the page leaves the all-hands dates, the table, the
\* absence map and the day list as they were saved.
C25_PersistenceRoundTrip ==
  [][ (lastOp' = "reload" /\ ops' = ops + 1) =>
        /\ state'.bubbleLux = state.bubbleLux
        /\ state'.plan = state.plan
        /\ state'.oooData = state.oooData
        /\ state'.days = state.days ]_vars

\* C26: a setCell step sets the cell of the given day and person to the
\* given tag, whatever the cell held and whatever the day then looks like,
\* leaves every other cell of the table as it was and adds none, and
\* leaves the all-hands dates, the absence map, the day list and the
\* month unchanged.
C26_ManualEditFrame ==
  [][ (lastOp' = "setCell" /\ ops' = ops + 1) =>
        \E c \in CellEdits(state.monthISO) :
          /\ c[1] \in DOMAIN state'.plan
          /\ c[2] \in DOMAIN state'.plan[c[1]]
          /\ state'.plan[c[1]][c[2]] = c[3]
          /\ DOMAIN state'.plan = DOMAIN state.plan \cup {c[1]}
          /\ \A date \in DOMAIN state'.plan :
               /\ DOMAIN state'.plan[date] =
                    (IF date \in DOMAIN state.plan THEN DOMAIN state.plan[date] ELSE {})
                      \cup (IF date = c[1] THEN {c[2]} ELSE {})
               /\ \A id \in DOMAIN state'.plan[date] :
                    << date, id >> # << c[1], c[2] >> =>
                      state'.plan[date][id] = state.plan[date][id]
          /\ state'.bubbleLux = state.bubbleLux
          /\ state'.oooData = state.oooData
          /\ state'.days = state.days
          /\ state'.monthISO = state.monthISO ]_vars

\* A table was generated and Bertrand then set to ISSY on the first
\* business day, a Monday: he is alone there and the table is stored so.
C26_Witness ==
  LET bdays == businessDays(state.monthISO)
  IN /\ pc = "idle"
     /\ lastOp = "setCell"
     /\ csvText = NoFile
     /\ DOMAIN state.plan = Range(bdays)
     /\ Cardinality(DOMAIN state.plan[bdays[1]]) > 1
     /\ state.plan[bdays[1]]["bertrand"] = "ISSY"
     /\ \A id \in DOMAIN state.plan[bdays[1]] \ {"bertrand"} :
          state.plan[bdays[1]][id] # "ISSY"

\* ----------------------------------------------------------- remote target
\* A month of 23 business days: March 2027, 31 days, the 1st a Monday.
LongMonth == [dow1 |-> 1, len |-> 31]

\* A roster of a person with the given shares, summing to 100, and of one
\* who asks for half GC, half Issy.
ShareRoster(gc, issy) ==
  << Person("p", gc, issy, 100 - gc - issy, "undefined"),
     Person("q", 50, 50, 0, "undefined") >>

\* Both away on the first k business days of the month.
AwayFirst(k) == [id \in {"p", "q"} |-> SubSeq(MonthDaysOf(LongMonth), 1, k)]

\* generateSchedule of App.tsx is called with every share triple and every
\* availability from 0 to 23.
InitTargets ==
  /\ version = "A"
  /\ people \in {ShareRoster(t[1], t[2]) :
                   t \in {u \in (0..100) \X (0..100) : u[1] + u[2] <= 100}}
  /\ peoplePrefs = Empty
  /\ monthStart = LongMonth
  /\ bubbleLuxDates = << >>
  /\ oooData \in {AwayFirst(k) : k \in 0..Len(MonthDaysOf(LongMonth))}
  /\ plan = Empty
  /\ targetDays = Empty
  /\ actualDays = Empty
  /\ pc = "entry"
  /\ dayIndex = 1
  /\ gcCandidates = << >>
  /\ candIndex = 1
  /\ remainingPeople = << >>
  /\ remIndex = 1
  /\ run = 1
  /\ firstResult = NoResult
  /\ state = InitialState
  /\ csvText = NoFile
  /\ download = NoFile
  /\ lastOp = "none"
  /\ ops = 0

\* The call up to the targets.
NextTargets == InitPlan \/ ApplyOOO \/ ApplyBubbleLux \/ CalcTargets

SpecTargets == InitTargets /\ [][NextTargets]_vars

\* C27 (version A): once the targets are computed, for shares that are
\* non-negative integers summing to 100 and every availability from 0 to
\* 23, the remote target of a person with a remote share of 1 or more is 0
\* or more, and the remote target of every person is -1 or more.
C27_RemoteTarget ==
  pc = "actual" =>
    \A i \in 1..Len(people) :
      LET person == people[i]
          target == targetDays[person.id]
      IN /\ target.remote = AvailableDaysOf(person.id, monthStart, oooData)
                              - target.gc - target.issy
         /\ person.remoteShare >= 1 => target.remote >= 0
         /\ target.remote >= -1

\* The targets are computed for 23 available days: the person with half
\* GC, half Issy has a remote target of -1, the other one, whose remote
\* share is 1, has two targets rounded up and a remote target of 0.
C27_Witness ==
  /\ pc = "actual"
  /\ AvailableDaysOf("p", monthStart, oooData) = Len(monthDays)
  /\ targetDays["q"].remote = -1
  /\ people[1].remoteShare = 1
  /\ targetDays["p"].gc * 100 > people[1].gcShare * Len(monthDays)
  /\ targetDays["p"].issy * 100 > people[1].issyShare * Len(monthDays)
  /\ targetDays["p"].remote = 0

\* C28 (version B): in the returned table, every person of the roster who
\* is not marked inactive, the people without an active flag included, has
\* a cell in the row of every business day.
C28_ActiveFlagAgreement ==
  (version = "B" /\ pc = "done") =>
    \A i \in 1..Len(people) :
      people[i].active # "false" =>
        \A d \in BusinessDays : people[i].id \in DOMAIN plan[d]

\* parseCSV accepts the text: it has a header and one more line.
Accepted(text) == Len(SelectSeq(text, LAMBDA line : ~IsBlankLine(line))) >= 2

\* C29: an importCSV step with a text that parseCSV accepts leaves the
\* all-hands dates of every month, the absence map and the selected month
\* as they were.
C29_ImportFrame ==
  [][ (ImportStep /\ Accepted(csvText')) =>
        /\ state'.bubbleLux = state.bubbleLux
        /\ state'.oooData = state.oooData
        /\ state'.monthISO = state.monthISO ]_vars

\* C30 (both versions): in the returned table the people with a cell in
\* the row of a business day are the scheduled people of the roster, so an
\* entry of the absence map for anybody else adds no cell and no OOO to the
\* count of a day.
C30_NoForeignCells ==
  pc = "done" =>
    \A d \in BusinessDays :
      /\ DOMAIN plan[d] = SchedIds
      /\ dayUsage(plan, d, "OOO") = Cardinality({id \in SchedIds : Absent(id, d)})

====
